---- MODULE Spec2Model ----
(***************************************************************************)
(* Model of the AI-service resilience layer of the cultivation assistant   *)
(* (GeminiService: circuit breaker, retry with backoff, briefing cache)    *)
(* as implemented in services/geminiService.ts.                            *)
(*                                                                         *)
(* A logical call is one invocation of generateFacilityBriefing,           *)
(* analyzePlantImage, chat, chatStream or analyzeLiveFrame.  A call is    *)
(* suspended while its request is in flight and while it sleeps in a       *)
(* backoff timer; everything between two suspension points runs            *)
(* atomically on the event loop.  When the promise of a call settles, the  *)
(* caller's continuation runs as a microtask, before any other event.      *)
(*                                                                         *)
(* The module also models the environmental drift simulator                *)
(* (services/hardwareService.ts) with the controller hook that consumes    *)
(* its readings (hooks/useAppController.ts).  The services share no state: *)
(* each specification below moves one of them and leaves the others as     *)
(* constructed.                                                            *)
(***************************************************************************)
EXTENDS Integers, Sequences, FiniteSets, TLC

\* ---------------------------------------------------------------- bounds
\* logical calls made during one run
MaxCalls == 4

\* ------------------------------------------------------ program constants
CIRCUIT_BREAKER_THRESHOLD == 5
COOLDOWN_MS == 60000
CACHE_TTL == 5 * 60 * 1000
DEFAULT_RETRIES == 3

Calls == 1..MaxCalls
Wrapped == {"briefing", "analyze", "chat"}

\* wall-clock time the environment lets pass in one step
Deltas == {COOLDOWN_MS}

\* ------------------------------------------------------------ data shapes
BriefingStatus == {"OPTIMAL", "ATTENTION", "CRITICAL"}

\* room lists handed to generateFacilityBriefing (the status of each room)
RoomLists == {<<"NOMINAL", "WARNING">>, <<"NOMINAL", "CRITICAL">>}

NoValue == [id |-> 0, status |-> "none"]
NoCache == [data |-> NoValue, timestamp |-> 0]
NoError == [name |-> "none", message |-> <<>>, remaining |-> 0]
NoResult == [type |-> "none", value |-> NoValue, error |-> NoError]

\* response.text: absent, or the JSON text of a payload
NoText == [empty |-> TRUE, json |-> NoValue]
TextOf(p) == [empty |-> FALSE, json |-> p]
JSONparse(text) == text.json

\* error messages the transport can reject with, as token sequences
TransportMessages == {<<"got", "status", "429">>, <<"503", "unavailable">>,
                      <<"400", "bad", "request">>}

TransportError(msg) == [name |-> "Transport", message |-> msg, remaining |-> 0]
EmptyResponseError ==
    [name |-> "Error", message |-> <<"Empty", "response", "from", "AI">>, remaining |-> 0]
NoAnalysisError ==
    [name |-> "Error", message |-> <<"No", "analysis", "returned">>, remaining |-> 0]
CooldownError(elapsed) ==
    [name |-> "Error", message |-> <<"AI", "System", "Cooldown">>,
     remaining |-> (COOLDOWN_MS - elapsed + 999) \div 1000]

ChatFallback == [id |-> 0, status |-> "I couldn't generate a response."]
DefaultOverlay == [id |-> 0, status |-> "SCANNING"]

Return(v) == [type |-> "ok", value |-> v, error |-> NoError]
Throw(e) == [type |-> "error", value |-> NoValue, error |-> e]

\* what a request can settle with
NoOutcome == [rejects |-> FALSE, text |-> NoText, error |-> NoError]
resolved(text) == [rejects |-> FALSE, text |-> text, error |-> NoError]
rejected(msg) == [rejects |-> TRUE, text |-> NoText, error |-> TransportError(msg)]

VARIABLES
    consecutiveFailures,
    lastFailureTime,
    briefingCache,
    slots,                \* how many calls the application has in flight at once
    pc,                   \* per call: idle | transport | backoff | done | gone
    kind,                 \* per call: which operation it is
    retries,              \* per call: the retries parameter of its active withRetry frame
    wakeAt,               \* per call: deadline of its backoff timer
    result,               \* per call: how its promise settled
    attempts,             \* per call: requests sent so far (history)
    only429,              \* per call: every failed attempt so far was a 429 (history)
    delays,               \* per call: backoff delays it has scheduled (history)
    failsSinceSuccess,    \* failed wrapper attempts since the last successful one,
                          \* counted up to CIRCUIT_BREAKER_THRESHOLD (history)
    prevRun,              \* the last successful attempt came right after exactly 4 failed ones (history)
    fetched,              \* result of the briefing fetch that last completed successfully (history)
    last                  \* the step just taken and what it started from (history)

gateVars == <<consecutiveFailures, lastFailureTime, briefingCache, slots, pc, kind,
              retries, wakeAt, result, attempts, only429, delays,
              failsSinceSuccess, prevRun, fetched, last>>

\* one application of simulateDrift taken on its own
VARIABLES
    current,              \* the reading passed to simulateDrift
    emitted               \* the reading it returned, once it has run

driftVars == <<current, emitted>>

\* the drift simulator (HardwareService) and the window's interval timers
VARIABLES
    listeners,            \* this.listeners: the callbacks, in subscription order
    intervalId,           \* this.intervalId: 0 for null, else the id of the timer
    timers,               \* ids of the interval timers the window keeps running
    activeRooms,          \* this.activeRooms: per room id, its reading if it has one
    handles,              \* callbacks for which an unsubscribe function has been returned
    ticks,                \* timer callbacks run so far (history)
    invoked,              \* notifications made by the last step, in order (history)
    registrations,        \* the registerRoom calls made: room id, and whether the room
                          \* had a reading (history)
    dispatches,           \* per notifyListeners call of the last step: the room, the
                          \* listeners when it began and the callbacks it ran (history)
    unsubscribed,         \* callbacks unsubscribed and not subscribed again since (history)
    lastChange,           \* the last start/stop call that changed something (history)
    simLast               \* the simulator call just made and what it started from (history)

simVars == <<listeners, intervalId, timers, activeRooms, handles, ticks, invoked,
             dispatches, registrations, unsubscribed, lastChange, simLast>>

\* the controller hook (useAppController)
VARIABLES
    ctl,                  \* none | mounted | unmounted
    initPending,          \* init() continuations suspended at their await
    rooms                 \* the rooms state: per room id, its reading and status

ctlVars == <<ctl, initPending, rooms>>

\* the chat view (ChatInterface)
VARIABLES
    messages,             \* the message list
    input,                \* the text in the input box
    isLoading,            \* a request is in progress
    pendingId,            \* id of the placeholder the request in progress will fill
    sends,                \* messages sent so far (history)
    chatArgs,             \* history passed to geminiService.chat by the last step, if any
    chatLast              \* the last step and the input and flag it found (history)

chatVars == <<messages, input, isLoading, pendingId, sends, chatArgs, chatLast>>

\* what the gate never touches
nonGateVars == <<driftVars, simVars, ctlVars, chatVars>>

vars == <<gateVars, nonGateVars>>

\* ------------------------------------------------------------------ clock
\* Instants are kept relative to the current one: Date.now() is the origin,
\* an instant in the past is negative.  The code only ever compares an age
\* with COOLDOWN_MS or CACHE_TTL, so an instant older than its window is
\* kept at the edge of the window.
now == 0

Max(a, b) == IF a >= b THEN a ELSE b

\* the instant t as seen once d more milliseconds have passed
Later(t, d, window) == Max(t - d, 0 - window)

\* --------------------------------------------------------- pure functions

\* String.prototype.includes on a tokenised message
Includes(msg, tok) == \E i \in 1..Len(msg) : msg[i] = tok

isRetryable(error) == Includes(error.message, "429") \/ Includes(error.message, "503")

backoffDelay_reversed(r) == r * 1000

backoffDelay(r) == (4 - r) * 1000

checkCircuitBreaker_above(cf, lft, t) ==
    IF cf > CIRCUIT_BREAKER_THRESHOLD
    THEN IF t - lft < COOLDOWN_MS
         THEN [throws |-> TRUE, consecutiveFailures |-> cf]
         ELSE [throws |-> FALSE, consecutiveFailures |-> 0]
    ELSE [throws |-> FALSE, consecutiveFailures |-> cf]

checkCircuitBreaker_noReset(cf, lft, t) ==
    IF cf >= CIRCUIT_BREAKER_THRESHOLD
    THEN IF t - lft < COOLDOWN_MS
         THEN [throws |-> TRUE, consecutiveFailures |-> cf]
         ELSE [throws |-> FALSE, consecutiveFailures |-> cf]
    ELSE [throws |-> FALSE, consecutiveFailures |-> cf]

checkCircuitBreaker_late(cf, lft, t) ==
    [throws |-> FALSE, consecutiveFailures |-> cf]

checkCircuitBreaker_counts(cf, lft, t) ==
    IF cf >= CIRCUIT_BREAKER_THRESHOLD
    THEN IF t - lft < COOLDOWN_MS
         THEN [throws |-> TRUE, consecutiveFailures |-> cf + 1]
         ELSE [throws |-> FALSE, consecutiveFailures |-> 0]
    ELSE [throws |-> FALSE, consecutiveFailures |-> cf]

\* checkCircuitBreaker: whether it throws, and the counter it leaves behind
checkCircuitBreaker(cf, lft, t) ==
    IF cf >= CIRCUIT_BREAKER_THRESHOLD
    THEN IF t - lft < COOLDOWN_MS
         THEN [throws |-> TRUE, consecutiveFailures |-> cf]
         ELSE [throws |-> FALSE, consecutiveFailures |-> 0]
    ELSE [throws |-> FALSE, consecutiveFailures |-> cf]

onSuccess_keep(cf) == cf

\* the counter after a successful attempt
onSuccess(cf) == 0

onFailure_twice(cf) == cf + 2

\* the counter after a failed attempt
onFailure(cf) == cf + 1

shouldRetry_anyError(r, error) == r > 0

shouldRetry_extra(r, error) == r > 0 - 2 /\ isRetryable(error)

shouldRetry(r, error) == r > 0 /\ isRetryable(error)

hasCritical(rs) == \E i \in 1..Len(rs) : rs[i] = "CRITICAL"

cacheFresh_seconds(cache, t) == cache # NoCache /\ t - cache.timestamp < 5 * 60

cacheFresh_inclusive(cache, t) == cache # NoCache /\ t - cache.timestamp <= CACHE_TTL

cacheFresh(cache, t) == cache # NoCache /\ t - cache.timestamp < CACHE_TTL

cacheServes_always(cache, rs) == TRUE

cacheServes(cache, rs) == ~hasCritical(rs) \/ cache.data.status = "CRITICAL"

cacheAfter_dropOnError(cache, k, r, t) ==
    IF k = "briefing" /\ r.type = "ok"
    THEN [data |-> r.value, timestamp |-> t]
    ELSE IF k = "briefing" THEN NoCache ELSE cache

cacheAfter_keepFirst(cache, k, r, t) ==
    IF k = "briefing" /\ r.type = "ok" /\ cache = NoCache
    THEN [data |-> r.value, timestamp |-> t]
    ELSE cache

\* the cache slot after fn of operation k has run to the result r at time t:
\* this.briefingCache = { data: result, timestamp: Date.now() }
cacheAfter(cache, k, r, t) ==
    IF k = "briefing" /\ r.type = "ok"
    THEN [data |-> r.value, timestamp |-> t]
    ELSE cache

cacheHit(cache, rs, t) == cacheFresh(cache, t) /\ cacheServes(cache, rs)

briefingPath_breakerFirst(cache, rs, t, cf, lft) ==
    IF checkCircuitBreaker(cf, lft, t).throws THEN "withRetry"
    ELSE IF cacheHit(cache, rs, t) THEN "cache" ELSE "withRetry"

\* generateFacilityBriefing before its first suspension: the cache is looked
\* at first, and neither consecutiveFailures nor lastFailureTime is
briefingPath(cache, rs, t, cf, lft) ==
    IF cacheHit(cache, rs, t) THEN "cache" ELSE "withRetry"

\* every payload the remote model produces is a new object: its identity
\* differs from that of the object the cache holds
Payloads(c) ==
    LET id == IF briefingCache.data.id = 1 THEN 2 ELSE 1 IN
    IF kind[c] = "briefing" THEN {[id |-> id, status |-> s] : s \in BriefingStatus}
    ELSE {[id |-> id, status |-> "payload"]}

TransportOutcomes(c) ==
    {resolved(TextOf(p)) : p \in Payloads(c)} \cup {resolved(NoText)}
        \cup {rejected(m) : m \in TransportMessages}

\* the body passed to withRetry, from the point where the request settles
briefingFn_emptyOk(o) ==
    IF o.rejects THEN Throw(o.error) ELSE Return(JSONparse(o.text))

briefingFn(o) ==
    IF o.rejects THEN Throw(o.error)
    ELSE IF o.text.empty THEN Throw(EmptyResponseError)
    ELSE Return(JSONparse(o.text))

analyzeFn(o) ==
    IF o.rejects THEN Throw(o.error)
    ELSE IF o.text.empty THEN Throw(NoAnalysisError)
    ELSE Return(JSONparse(o.text))

chatFn(o) ==
    IF o.rejects THEN Throw(o.error)
    ELSE IF o.text.empty THEN Return(ChatFallback)
    ELSE Return(o.text.json)

\* analyzeLiveFrame, from the point where the request settles
liveFn(o) ==
    IF o.rejects THEN Throw(o.error)
    ELSE IF o.text.empty THEN Return(DefaultOverlay)
    ELSE Return(JSONparse(o.text))

\* chatStream, from the point where the request settles: the stream of the
\* chunks that carry text
streamFn(o) ==
    IF o.rejects THEN Throw(o.error)
    ELSE Return(o.text.json)

fnOf(k, o) ==
    CASE k = "briefing" -> briefingFn(o)
      [] k = "analyze" -> analyzeFn(o)
      [] OTHER -> chatFn(o)

\* ------------------------------------------------------------------ state

NoEvent ==
    [event |-> "none", call |-> 0, rooms |-> <<>>, outcome |-> NoOutcome, cf |-> 0,
     lft |-> 0, cache |-> NoCache]

\* the step being taken: a call is made, a request settles, a retry starts
Event(e, c, rs, o) ==
    [event |-> e, call |-> c, rooms |-> rs, outcome |-> o, cf |-> consecutiveFailures,
     lft |-> lastFailureTime, cache |-> briefingCache]

\* lastFailureTime starts as the epoch, long before the service is constructed
GateInit ==
    /\ consecutiveFailures = 0
    /\ lastFailureTime = 0 - COOLDOWN_MS
    /\ briefingCache = NoCache
    /\ slots = 1
    /\ pc = [c \in Calls |-> "idle"]
    /\ kind = [c \in Calls |-> "none"]
    /\ retries = [c \in Calls |-> 0]
    /\ wakeAt = [c \in Calls |-> 0]
    /\ result = [c \in Calls |-> NoResult]
    /\ attempts = [c \in Calls |-> 0]
    /\ only429 = [c \in Calls |-> TRUE]
    /\ delays = [c \in Calls |-> <<>>]
    /\ failsSinceSuccess = 0
    /\ prevRun = FALSE
    /\ fetched = NoValue
    /\ last = NoEvent

\* ------------------------------------------------------- drift simulator
\* Numbers are held as integers: temperature and humidity of a reading in
\* tenths, vpd in hundredths of a kPa, co2 in ppm.  A reading's timestamp
\* is not modelled: nothing reads it.
UPDATE_INTERVAL == 3000
\* FLUX_TEMP = 0.5 and FLUX_HUMIDITY = 1.5, in tenths
FLUX_TEMP == 5
FLUX_HUMIDITY == 15

\* Math.random() returns r / RandomScale for a draw r: a value in [0, 1)
RandomScale == 10000
Rands == {0, 2500, 5000, 7500, RandomScale - 1}
\* draws for the CO2 step: one in every tenth of [0, 1), and the largest
Co2Rands == {(k * RandomScale) \div 10 : k \in 0..9} \cup {RandomScale - 1}

NoReading == [temp |-> 0, humidity |-> 0, vpd |-> 0, co2 |-> 0, present |-> FALSE]
Reading(t, h, v, c) == [temp |-> t, humidity |-> h, vpd |-> v, co2 |-> c, present |-> TRUE]

driftOf_uncentred(r, flux) == r * flux

\* (Math.random() - 0.5) * flux, in units of 0.00001
driftOf(r, flux) == (r - RandomScale \div 2) * flux

\* x rounded to the nearest multiple of m, a tie going to the even multiple
RoundHalfEven(x, m) ==
    LET q == x \div m
        rem == x % m
    IN  IF 2 * rem < m THEN q * m
        ELSE IF 2 * rem > m THEN (q + 1) * m
        ELSE IF q % 2 = 0 THEN q * m ELSE (q + 1) * m

\* value + change as the double that holds it.  A double has 53 significant
\* bits: next to a reading of magnitude 16 or more the sum cannot keep the
\* last bits of a drift of magnitude below 1, and is rounded to the nearest
\* double (ties to even).  The model keeps that relation at reduced width:
\* drifts are exact to 0.00001, sums are held to 0.001.
floatSum(value, change) == RoundHalfEven(value * 10000 + change, 100)

\* Number(x.toFixed(..)) for x in units of 0.00001, to the nearest multiple
\* of m: the sign is set aside and a tie goes to the larger magnitude
toFixedAbs(a, m) == ((2 * a + m) \div (2 * m)) * m

toFixed(x, m) == IF x < 0 THEN 0 - toFixedAbs(0 - x, m) ELSE toFixedAbs(x, m)

\* 0.61078 * exp(17.27 * T / (T + 237.3)) at T = 14, 15, .. 32 degrees, in
\* units of 0.0001 kPa
SvpTable == <<15986, 17053, 18182, 19377, 20639, 21973, 23382, 24869, 26438, 28093,
              29838, 31677, 33613, 35652, 37798, 40055, 42429, 44924, 47546>>

\* svp for a temperature in tenths, interpolated between whole degrees
\* (within 0.002 kPa of the formula on 14.0 .. 31.9 degrees)
svpOf(temp) ==
    LET lo == temp \div 10
        fr == temp % 10
    IN  (SvpTable[lo - 13] * (10 - fr) + SvpTable[lo - 12] * fr) \div 10

\* Number((svp * (1 - humidity / 100)).toFixed(2)), in hundredths
vpdOf(temp, humidity) == toFixed(svpOf(temp) * (1000 - humidity), 100000) \div 100000

MathMax_second(a, b) == b

\* Math.max
MathMax(a, b) == IF a >= b THEN a ELSE b

\* Math.floor(Math.random() * 10) - 5
co2Change(r) == (r * 10) \div RandomScale - 5

\* simulateDrift, with the three draws of Math.random() in call order
simulateDrift(cur, r1, r2, r3) ==
    LET tempChange == driftOf(r1, FLUX_TEMP)
        humidityChange == driftOf(r2, FLUX_HUMIDITY)
        temp == toFixed(floatSum(cur.temp, tempChange), 10000) \div 10000
        humidity == toFixed(floatSum(cur.humidity, humidityChange), 10000) \div 10000
        vpd == vpdOf(temp, humidity)
    IN  Reading(temp, humidity, MathMax(0, vpd), cur.co2 + co2Change(r3))

\* readings simulateDrift is applied to: the seeded ones and ones near the
\* edges of the alarm thresholds and of the humidity scale
DriftInputs ==
    {Reading(t, h, MathMax(0, vpdOf(t, h)), c) :
        t \in {150, 245, 260, 300}, h \in {450, 750, 998, 1000}, c \in {450, 1200}}

\* ----------------------------------------------------- simulator service
\* timer callbacks run during one run
MaxTicks == 2
\* length the listener array may grow to
MaxListeners == 2
\* init() continuations that may be waiting for the database at one time
MaxMounts == 2

\* r1 and r2 are the seeded rooms; r3 stands for a room without a reading
RoomIds == {"r1", "r2", "r3"}
RoomOrder == <<"r1", "r2", "r3">>

\* MOCK_ROOMS: the reading and the status each seeded room is stored with
MOCK_ROOMS ==
    [id \in RoomIds |->
        CASE id = "r1" -> [currentReading |-> Reading(245, 450, 120, 1200),
                           status |-> "NOMINAL", present |-> TRUE]
          [] id = "r2" -> [currentReading |-> Reading(260, 750, 60, 450),
                           status |-> "WARNING", present |-> TRUE]
          [] OTHER -> [currentReading |-> NoReading, status |-> "NOMINAL", present |-> FALSE]]

\* rooms a client may pass to registerRoom, per id: the seeded rooms as they
\* are stored, and a third room with or without a reading
RegisterInputs ==
    [id \in RoomIds |->
        IF MOCK_ROOMS[id].present THEN {MOCK_ROOMS[id]}
        ELSE {[currentReading |-> NoReading, status |-> "NOMINAL", present |-> TRUE],
              [currentReading |-> Reading(245, 450, 120, 1200), status |-> "NOMINAL",
               present |-> TRUE]}]

\* listeners of other clients, and the controller's own
ClientCallbacks == {"a", "b"}
ControllerCallback == "ctl"

\* draws of Math.random() made for one room in one tick
TickDraws == {<<0, 0, 0>>, <<RandomScale - 1, RandomScale - 1, RandomScale - 1>>}
\* the draws where only the listeners and the registrations are looked at
SimDraws == {<<0, 0, 0>>}

NoSimCall == [op |-> "none", intervalId |-> 0, timers |-> {}, unsubscribed |-> {}]
SimCall(op) ==
    [op |-> op, intervalId |-> intervalId, timers |-> timers, unsubscribed |-> unsubscribed]

SimInit ==
    /\ listeners = <<>>
    /\ intervalId = 0
    /\ timers = {}
    /\ activeRooms = [id \in RoomIds |-> NoReading]
    /\ handles = {}
    /\ ticks = 0
    /\ invoked = <<>>
    /\ dispatches = <<>>
    /\ registrations = {}
    /\ unsubscribed = {}
    /\ lastChange = "none"
    /\ simLast = NoSimCall

CtlInit ==
    /\ ctl = "none"
    /\ initPending = 0
    /\ rooms = [id \in RoomIds |-> [currentReading |-> NoReading, status |-> "NOMINAL",
                                    present |-> FALSE]]

\* if (this.intervalId)
isRunning_never(id) == FALSE

isRunning(id) == id # 0

\* window.setInterval returns an id above zero that no running timer has
freshTimer(ts) == IF ts = {} THEN 1 ELSE 1 + CHOOSE t \in ts : \A u \in ts : u <= t

registered_always(active, id, room) ==
    [active EXCEPT ![id] = [room.currentReading EXCEPT !.present = TRUE]]

\* activeRooms after registerRoom(room)
registered(active, id, room) ==
    IF room.currentReading.present THEN [active EXCEPT ![id] = room.currentReading]
    ELSE active

\* the interval state after startSimulation()
started(id, ts) ==
    IF isRunning(id) THEN [intervalId |-> id, timers |-> ts]
    ELSE [intervalId |-> freshTimer(ts), timers |-> ts \cup {freshTimer(ts)}]

\* the interval state after stopSimulation()
stopped(id, ts) ==
    IF isRunning(id) THEN [intervalId |-> 0, timers |-> ts \ {id}]
    ELSE [intervalId |-> id, timers |-> ts]

removeListener_first(ls, cb) ==
    IF \E i \in 1..Len(ls) : ls[i] = cb
    THEN LET k == CHOOSE i \in 1..Len(ls) : ls[i] = cb /\ \A j \in 1..(i - 1) : ls[j] # cb
         IN  SubSeq(ls, 1, k - 1) \o SubSeq(ls, k + 1, Len(ls))
    ELSE ls

\* this.listeners.filter(l => l !== callback)
removeListener(ls, cb) == SelectSeq(ls, LAMBDA l : l # cb)

\* the threshold rule of the controller's listener
statusOf(reading) ==
    IF reading.temp > 300 \/ reading.temp < 150 THEN "CRITICAL"
    ELSE IF reading.vpd < 40 \/ reading.vpd > 160 THEN "WARNING"
    ELSE "NOMINAL"

\* ------------------------------------------------------------ chat view
\* messages the user may send in one run
MaxSends == 2

\* Texts are sequences of characters.
Greeting == <<"H", "e", "l", "l", "o">>
MockResponse == <<"o", "k">>
Sorry(msg) == <<"S", "o", "r", "r", "y", ":">> \o msg
FailureMessage == <<"d", "o", "w", "n">>
\* what the user may have typed when the send button is pressed
ChatInputs == {<<>>, <<" ">>, <<"h", "i">>, <<" ", "h", "i", " ">>}

RECURSIVE trimStart(_)
trimStart(s) == IF s # <<>> /\ Head(s) = " " THEN trimStart(Tail(s)) ELSE s

RECURSIVE trimEnd(_)
trimEnd(s) == IF s # <<>> /\ s[Len(s)] = " " THEN trimEnd(SubSeq(s, 1, Len(s) - 1)) ELSE s

\* String.prototype.trim
trim(s) == trimEnd(trimStart(s))

ChatMessage(id, role, text, thinking) ==
    [id |-> id, role |-> role, text |-> text, isThinking |-> thinking]

withoutThinking_all(ms) == ms

\* nextMessages.filter(m => !m.isThinking)
withoutThinking(ms) == SelectSeq(ms, LAMBDA m : ~m.isThinking)

NoChatStep == [op |-> "none", input |-> <<>>, isLoading |-> FALSE]
ChatStep(op) == [op |-> op, input |-> input, isLoading |-> isLoading]

ChatInit ==
    /\ messages = <<ChatMessage(1, "model", Greeting, FALSE)>>
    /\ input = <<>>
    /\ isLoading = FALSE
    /\ pendingId = 0
    /\ sends = 0
    /\ chatArgs = <<>>
    /\ chatLast = NoChatStep

DriftUnused == current = NoReading /\ emitted = NoReading

Init == GateInit /\ DriftUnused /\ SimInit /\ CtlInit /\ ChatInit

InitDrift ==
    /\ GateInit /\ SimInit /\ CtlInit /\ ChatInit
    /\ current \in DriftInputs
    /\ emitted = NoReading

Drift(r1, r2, r3) ==
    /\ current.present
    /\ ~emitted.present
    /\ emitted' = simulateDrift(current, r1, r2, r3)
    /\ UNCHANGED <<current, gateVars, simVars, ctlVars, chatVars>>

NextDrift == \E r1 \in Rands, r2 \in Rands, r3 \in Co2Rands : Drift(r1, r2, r3)

SpecDrift == InitDrift /\ [][NextDrift]_vars

\* ------------------------------------------------- simulator: operations

registerRoom(id, room) ==
    /\ activeRooms' = registered(activeRooms, id, room)
    /\ registrations' = registrations \cup
                            {[id |-> id, withReading |-> room.currentReading.present]}
    /\ simLast' = SimCall("registerRoom")
    /\ invoked' = <<>>
    /\ dispatches' = <<>>
    /\ UNCHANGED <<listeners, intervalId, timers, handles, ticks, unsubscribed, lastChange>>
    /\ UNCHANGED <<gateVars, driftVars, chatVars, ctlVars>>

startSimulation ==
    LET after == started(intervalId, timers) IN
    /\ intervalId' = after.intervalId
    /\ timers' = after.timers
    /\ lastChange' = IF after.timers # timers THEN "start" ELSE lastChange
    /\ simLast' = SimCall("startSimulation")
    /\ invoked' = <<>>
    /\ dispatches' = <<>>
    /\ UNCHANGED registrations
    /\ UNCHANGED <<listeners, activeRooms, handles, ticks, unsubscribed>>
    /\ UNCHANGED <<gateVars, driftVars, chatVars, ctlVars>>

stopSimulation ==
    LET after == stopped(intervalId, timers) IN
    /\ intervalId' = after.intervalId
    /\ timers' = after.timers
    /\ lastChange' = IF after.timers # timers THEN "stop" ELSE lastChange
    /\ simLast' = SimCall("stopSimulation")
    /\ invoked' = <<>>
    /\ dispatches' = <<>>
    /\ UNCHANGED registrations
    /\ UNCHANGED <<listeners, activeRooms, handles, ticks, unsubscribed>>
    /\ UNCHANGED <<gateVars, driftVars, chatVars, ctlVars>>

onReading(cb) ==
    /\ Len(listeners) < MaxListeners
    /\ listeners' = Append(listeners, cb)
    /\ handles' = handles \cup {cb}
    /\ unsubscribed' = unsubscribed \ {cb}
    /\ simLast' = SimCall("onReading")
    /\ invoked' = <<>>
    /\ dispatches' = <<>>
    /\ UNCHANGED registrations
    /\ UNCHANGED <<intervalId, timers, activeRooms, ticks, lastChange>>
    /\ UNCHANGED <<gateVars, driftVars, chatVars, ctlVars>>

\* a client calls the function onReading(cb) returned
unsubscribe(cb) ==
    /\ cb \in handles
    /\ listeners' = removeListener(listeners, cb)
    /\ unsubscribed' = unsubscribed \cup {cb}
    /\ simLast' = SimCall("unsubscribe")
    /\ invoked' = <<>>
    /\ dispatches' = <<>>
    /\ UNCHANGED registrations
    /\ UNCHANGED <<intervalId, timers, activeRooms, handles, ticks, lastChange>>
    /\ UNCHANGED <<gateVars, driftVars, chatVars, ctlVars>>

iterated_live(snapshot, live) == live

\* The array forEach walks is the one this.listeners named when
\* notifyListeners was called: unsubscribe assigns a new, filtered array to
\* this.listeners and leaves that one as it is.
iterated(snapshot, live) == snapshot

\* this.listeners.forEach(cb => cb(roomId, reading)) from index i on, where
\* the callbacks in quitters call their own unsubscribe function when they
\* run: live is this.listeners, ran the callbacks invoked so far
RECURSIVE forEach(_, _, _, _, _)
forEach(snapshot, i, live, quitters, ran) ==
    IF i > Len(iterated(snapshot, live)) THEN [listeners |-> live, ran |-> ran]
    ELSE LET cb == iterated(snapshot, live)[i]
         IN  forEach(snapshot, i + 1,
                     IF cb \in quitters THEN removeListener(live, cb) ELSE live,
                     quitters, Append(ran, cb))

\* notifyListeners(roomId, reading)
notifyListeners(ls, id, quitters) ==
    LET done == forEach(ls, 1, ls, quitters, <<>>)
    IN  [listeners |-> done.listeners,
         dispatch |-> [room |-> id, began |-> ls, ran |-> done.ran]]

\* the controller's listener: setRooms(prev => prev.map(..)) for one reading
roomsAfter(rs, id, reading) ==
    IF rs[id].present
    THEN [rs EXCEPT ![id] = [currentReading |-> reading, status |-> statusOf(reading),
                             present |-> TRUE]]
    ELSE rs

\* The callback of a running interval timer: every room that has a reading
\* drifts and is published.  The rooms are taken in a fixed order; the map
\* iterates in insertion order, which changes the order of the
\* notifications of one tick and nothing else.  The callbacks in quitters
\* unsubscribe themselves when they are invoked.
tick(t, draws, quitters) ==
    LET drifted(id) == simulateDrift(activeRooms[id], draws[id][1], draws[id][2], draws[id][3])
        active == [id \in RoomIds |->
                      IF activeRooms[id].present THEN drifted(id) ELSE activeRooms[id]]
        published(ls, id) ==
            IF activeRooms[id].present
            THEN LET n == notifyListeners(ls, id, quitters)
                 IN  [listeners |-> n.listeners, dispatches |-> <<n.dispatch>>]
            ELSE [listeners |-> ls, dispatches |-> <<>>]
        p1 == published(listeners, RoomOrder[1])
        p2 == published(p1.listeners, RoomOrder[2])
        p3 == published(p2.listeners, RoomOrder[3])
        all == p1.dispatches \o p2.dispatches \o p3.dispatches
        calls(d) == [i \in 1..Len(d.ran) |-> [cb |-> d.ran[i], room |-> d.room]]
        ran == IF all = <<>> THEN <<>>
               ELSE IF Len(all) = 1 THEN calls(all[1])
               ELSE IF Len(all) = 2 THEN calls(all[1]) \o calls(all[2])
               ELSE calls(all[1]) \o calls(all[2]) \o calls(all[3])
        heard == \E i \in 1..Len(listeners) : listeners[i] = ControllerCallback
    IN  /\ t \in timers
        /\ ticks < MaxTicks
        /\ quitters \subseteq handles
        /\ ticks' = ticks + 1
        /\ activeRooms' = active
        /\ listeners' = p3.listeners
        /\ dispatches' = all
        /\ UNCHANGED registrations
        /\ invoked' = ran
        /\ unsubscribed' = unsubscribed \cup {ran[i].cb : i \in {k \in DOMAIN ran : ran[k].cb \in quitters}}
        /\ rooms' = IF heard
                    THEN [id \in RoomIds |->
                             IF activeRooms[id].present
                             THEN roomsAfter(rooms, id, active[id])[id] ELSE rooms[id]]
                    ELSE rooms
        /\ simLast' = SimCall("tick")
        /\ UNCHANGED <<intervalId, timers, handles, lastChange>>
        /\ UNCHANGED <<gateVars, driftVars, chatVars, ctl, initPending>>

NextSim ==
    \/ \E id \in RoomIds : \E room \in RegisterInputs[id] : registerRoom(id, room)
    \/ startSimulation
    \/ stopSimulation
    \/ \E cb \in ClientCallbacks : onReading(cb)
    \/ \E cb \in ClientCallbacks : unsubscribe(cb)
    \/ \E t \in timers : \E d \in SimDraws : \E quitters \in SUBSET ClientCallbacks :
          tick(t, [id \in RoomIds |-> d], quitters)

\* the simulator used by arbitrary clients
SpecSim == Init /\ [][NextSim]_vars

\* ------------------------------------------------ controller: lifecycle
\* The two effects of useAppController run when the component mounts: init()
\* is called and suspends at the database reads, then the listener is
\* subscribed.  React.StrictMode runs the cleanups and the effects a second
\* time on the same component, so a second init() may be waiting.
mount ==
    /\ ctl # "mounted"
    /\ initPending < MaxMounts
    /\ ctl' = "mounted"
    /\ initPending' = initPending + 1
    /\ listeners' = Append(listeners, ControllerCallback)
    /\ handles' = handles \cup {ControllerCallback}
    /\ unsubscribed' = unsubscribed \ {ControllerCallback}
    /\ simLast' = SimCall("onReading")
    /\ invoked' = <<>>
    /\ dispatches' = <<>>
    /\ UNCHANGED registrations
    /\ UNCHANGED <<intervalId, timers, activeRooms, ticks, lastChange, rooms>>
    /\ UNCHANGED <<gateVars, driftVars, chatVars>>

\* The continuation of init() after the database reads: the loaded rooms
\* become the state of a mounted component, every room is registered and the
\* simulation is started.  The continuation does not look at whether the
\* component is still mounted.  The briefing it requests last is the gate's
\* generateFacilityBriefing, which shares no state with the rooms.
initLoaded ==
    LET loadedRooms == MOCK_ROOMS
        active == [id \in RoomIds |->
                      IF loadedRooms[id].present
                      THEN registered(activeRooms, id, loadedRooms[id])[id]
                      ELSE activeRooms[id]]
        after == started(intervalId, timers)
    IN  /\ initPending > 0
        /\ initPending' = initPending - 1
        /\ rooms' = IF ctl = "mounted" THEN loadedRooms ELSE rooms
        /\ activeRooms' = active
        /\ registrations' = registrations \cup
                                {[id |-> id, withReading |-> loadedRooms[id].currentReading.present] :
                                    id \in {r \in RoomIds : loadedRooms[r].present}}
        /\ intervalId' = after.intervalId
        /\ timers' = after.timers
        /\ lastChange' = IF after.timers # timers THEN "start" ELSE lastChange
        /\ simLast' = SimCall("startSimulation")
        /\ invoked' = <<>>
        /\ dispatches' = <<>>
        /\ UNCHANGED <<listeners, handles, ticks, unsubscribed, ctl>>
        /\ UNCHANGED <<gateVars, driftVars, chatVars>>

\* a database read rejects: init() logs the error and does nothing else
initFailed ==
    /\ initPending > 0
    /\ initPending' = initPending - 1
    /\ simLast' = NoSimCall
    /\ invoked' = <<>>
    /\ dispatches' = <<>>
    /\ UNCHANGED registrations
    /\ UNCHANGED <<listeners, intervalId, timers, activeRooms, handles, ticks,
                   unsubscribed, lastChange, ctl, rooms>>
    /\ UNCHANGED <<gateVars, driftVars, chatVars>>

\* the cleanups of the two effects: stopSimulation(), then unsubscribe()
unmount ==
    LET after == stopped(intervalId, timers) IN
    /\ ctl = "mounted"
    /\ ctl' = "unmounted"
    /\ intervalId' = after.intervalId
    /\ timers' = after.timers
    /\ lastChange' = IF after.timers # timers THEN "stop" ELSE lastChange
    /\ listeners' = removeListener(listeners, ControllerCallback)
    /\ unsubscribed' = unsubscribed \cup {ControllerCallback}
    /\ simLast' = SimCall("unsubscribe")
    /\ invoked' = <<>>
    /\ dispatches' = <<>>
    /\ UNCHANGED registrations
    /\ UNCHANGED <<activeRooms, handles, ticks, initPending, rooms>>
    /\ UNCHANGED <<gateVars, driftVars, chatVars>>

NextApp ==
    \/ mount
    \/ initLoaded
    \/ initFailed
    \/ unmount
    \/ \E t \in timers : \E draws \in [RoomIds -> TickDraws] : tick(t, draws, {})

\* the application: the controller is the simulator's only client
SpecApp == Init /\ [][NextApp]_vars

\* ------------------------------------------------- chat view: operations
\* the user edits the input box
setInput(text) ==
    /\ input' = text
    /\ chatArgs' = <<>>
    /\ chatLast' = ChatStep("setInput")
    /\ UNCHANGED <<messages, isLoading, pendingId, sends>>
    /\ UNCHANGED <<gateVars, driftVars, simVars, ctlVars>>

\* handleSend up to its await.  Message ids are Date.now() strings in the
\* code; the model numbers the messages, which keeps them distinct.
handleSend ==
    LET userMsg == ChatMessage(Len(messages) + 1, "user", input, FALSE)
        thinkingMessage == ChatMessage(Len(messages) + 2, "model", <<>>, TRUE)
        nextMessages == messages \o <<userMsg, thinkingMessage>>
    IN  /\ sends < MaxSends
        /\ chatLast' = ChatStep("handleSend")
        /\ IF trim(input) = <<>> \/ isLoading
           THEN /\ chatArgs' = <<>>
                /\ UNCHANGED <<messages, input, isLoading, pendingId, sends>>
           ELSE /\ messages' = nextMessages
                /\ input' = <<>>
                /\ isLoading' = TRUE
                /\ pendingId' = thinkingMessage.id
                /\ sends' = sends + 1
                /\ chatArgs' = <<withoutThinking(nextMessages)>>
        /\ UNCHANGED <<gateVars, driftVars, simVars, ctlVars>>

\* geminiService.chat resolves: the placeholder takes the response text
chatResolved(responseText) ==
    /\ isLoading
    /\ messages' = [i \in 1..Len(messages) |->
                       IF messages[i].id = pendingId
                       THEN [messages[i] EXCEPT !.text = responseText, !.isThinking = FALSE]
                       ELSE messages[i]]
    /\ isLoading' = FALSE
    /\ pendingId' = 0
    /\ chatArgs' = <<>>
    /\ chatLast' = ChatStep("chatResolved")
    /\ UNCHANGED <<input, sends>>
    /\ UNCHANGED <<gateVars, driftVars, simVars, ctlVars>>

\* geminiService.chat rejects: an apology is appended, the placeholder stays
chatRejected(msg) ==
    /\ isLoading
    /\ messages' = Append(messages, ChatMessage(Len(messages) + 1, "model", Sorry(msg), FALSE))
    /\ isLoading' = FALSE
    /\ pendingId' = 0
    /\ chatArgs' = <<>>
    /\ chatLast' = ChatStep("chatRejected")
    /\ UNCHANGED <<input, sends>>
    /\ UNCHANGED <<gateVars, driftVars, simVars, ctlVars>>

NextChat ==
    \/ \E text \in ChatInputs : setInput(text)
    \/ handleSend
    \/ chatResolved(MockResponse)
    \/ chatRejected(FailureMessage)

\* the chat view with a chat service that answers or fails
SpecChat == Init /\ [][NextChat]_vars

\* no settled promise is waiting for its continuation
Quiescent == \A c \in Calls : pc[c] # "done"

InFlight == {c \in Calls : pc[c] \in {"transport", "backoff"}}

\* calls are numbered in the order they are made
NextCall(c) ==
    /\ Quiescent
    /\ pc[c] = "idle"
    /\ \A d \in Calls : d < c => pc[d] # "idle"
    /\ Cardinality(InFlight) < slots

\* d milliseconds pass: every stored instant moves into the past
Elapse(d) ==
    /\ lastFailureTime' = Later(lastFailureTime, d, COOLDOWN_MS)
    /\ briefingCache' = IF briefingCache = NoCache THEN NoCache
                        ELSE [briefingCache EXCEPT !.timestamp = Later(@, d, CACHE_TTL)]
    /\ wakeAt' = [c \in Calls |-> IF pc[c] = "backoff" THEN Later(wakeAt[c], d, 0) ELSE 0]

Advance(d) ==
    /\ Quiescent
    /\ Elapse(d)
    /\ last' = NoEvent
    /\ UNCHANGED <<consecutiveFailures, slots, pc, kind, retries, result, attempts,
                   only429, delays, failsSinceSuccess, prevRun, fetched>>
    /\ UNCHANGED nonGateVars

\* withRetry up to its first suspension: the breaker check, then the request
\* is sent (or the call is rejected)
withRetryEnter(c, r) ==
    LET chk == checkCircuitBreaker(consecutiveFailures, lastFailureTime', now) IN
    /\ consecutiveFailures' = chk.consecutiveFailures
    /\ retries' = [retries EXCEPT ![c] = r]
    /\ IF chk.throws
       THEN /\ pc' = [pc EXCEPT ![c] = "done"]
            /\ result' = [result EXCEPT ![c] = Throw(CooldownError(now - lastFailureTime'))]
            /\ attempts' = attempts
       ELSE /\ pc' = [pc EXCEPT ![c] = "transport"]
            /\ result' = result
            /\ attempts' = [attempts EXCEPT ![c] = @ + 1]

generateFacilityBriefing(c, rs) ==
    /\ NextCall(c)
    /\ kind' = [kind EXCEPT ![c] = "briefing"]
    /\ last' = Event("call", c, rs, NoOutcome)
    /\ UNCHANGED <<lastFailureTime, briefingCache, wakeAt>>
    /\ IF briefingPath(briefingCache, rs, now, consecutiveFailures, lastFailureTime) = "cache"
       THEN /\ pc' = [pc EXCEPT ![c] = "done"]
            /\ result' = [result EXCEPT ![c] = Return(briefingCache.data)]
            /\ UNCHANGED <<consecutiveFailures, retries, attempts>>
       ELSE withRetryEnter(c, DEFAULT_RETRIES)
    /\ UNCHANGED <<slots, only429, delays, failsSinceSuccess, prevRun, fetched>>
    /\ UNCHANGED nonGateVars

analyzePlantImage(c) ==
    /\ NextCall(c)
    /\ kind' = [kind EXCEPT ![c] = "analyze"]
    /\ last' = Event("call", c, <<>>, NoOutcome)
    /\ UNCHANGED <<lastFailureTime, briefingCache, wakeAt>>
    /\ withRetryEnter(c, DEFAULT_RETRIES)
    /\ UNCHANGED <<slots, only429, delays, failsSinceSuccess, prevRun, fetched>>
    /\ UNCHANGED nonGateVars

chat(c) ==
    /\ NextCall(c)
    /\ kind' = [kind EXCEPT ![c] = "chat"]
    /\ last' = Event("call", c, <<>>, NoOutcome)
    /\ UNCHANGED <<lastFailureTime, briefingCache, wakeAt>>
    /\ withRetryEnter(c, DEFAULT_RETRIES)
    /\ UNCHANGED <<slots, only429, delays, failsSinceSuccess, prevRun, fetched>>
    /\ UNCHANGED nonGateVars

analyzeLiveFrame(c) ==
    /\ NextCall(c)
    /\ kind' = [kind EXCEPT ![c] = "live"]
    /\ last' = Event("call", c, <<>>, NoOutcome)
    /\ pc' = [pc EXCEPT ![c] = "transport"]
    /\ attempts' = [attempts EXCEPT ![c] = 1]
    /\ UNCHANGED <<consecutiveFailures, lastFailureTime, briefingCache, slots, retries,
                   wakeAt, result, only429, delays, failsSinceSuccess, prevRun, fetched>>
    /\ UNCHANGED nonGateVars

chatStream(c) ==
    /\ NextCall(c)
    /\ kind' = [kind EXCEPT ![c] = "stream"]
    /\ last' = Event("call", c, <<>>, NoOutcome)
    /\ pc' = [pc EXCEPT ![c] = "transport"]
    /\ attempts' = [attempts EXCEPT ![c] = 1]
    /\ UNCHANGED <<consecutiveFailures, lastFailureTime, briefingCache, slots, retries,
                   wakeAt, result, only429, delays, failsSinceSuccess, prevRun, fetched>>
    /\ UNCHANGED nonGateVars

\* the request of a wrapped call settles: the rest of fn, then withRetry's
\* success path or its catch block up to the backoff timer
withRetrySettle(c, o) ==
    LET r == fnOf(kind[c], o) IN
    /\ Quiescent
    /\ pc[c] = "transport"
    /\ kind[c] \in Wrapped
    /\ o \in TransportOutcomes(c)
    /\ last' = Event("settle", c, <<>>, o)
    /\ briefingCache' = cacheAfter(briefingCache, kind[c], r, now)
    /\ fetched' = IF kind[c] = "briefing" /\ r.type = "ok" THEN r.value ELSE fetched
    /\ IF r.type = "ok"
       THEN /\ consecutiveFailures' = onSuccess(consecutiveFailures)
            /\ pc' = [pc EXCEPT ![c] = "done"]
            /\ result' = [result EXCEPT ![c] = r]
            /\ prevRun' = (failsSinceSuccess = 4)
            /\ failsSinceSuccess' = 0
            /\ UNCHANGED <<lastFailureTime, wakeAt, delays, only429>>
       ELSE /\ consecutiveFailures' = onFailure(consecutiveFailures)
            /\ lastFailureTime' = now
            /\ failsSinceSuccess' = IF failsSinceSuccess < CIRCUIT_BREAKER_THRESHOLD
                                    THEN failsSinceSuccess + 1 ELSE failsSinceSuccess
            /\ prevRun' = prevRun
            /\ only429' = [only429 EXCEPT ![c] = @ /\ Includes(r.error.message, "429")]
            /\ IF shouldRetry(retries[c], r.error)
               THEN /\ pc' = [pc EXCEPT ![c] = "backoff"]
                    /\ wakeAt' = [wakeAt EXCEPT ![c] = now + backoffDelay(retries[c])]
                    /\ delays' = [delays EXCEPT ![c] = Append(@, backoffDelay(retries[c]))]
                    /\ result' = result
               ELSE /\ pc' = [pc EXCEPT ![c] = "done"]
                    /\ result' = [result EXCEPT ![c] = r]
                    /\ UNCHANGED <<wakeAt, delays>>
    /\ UNCHANGED <<slots, kind, retries, attempts>>
    /\ UNCHANGED nonGateVars

\* the request of a live-frame call settles
analyzeLiveFrameSettle(c, o) ==
    /\ Quiescent
    /\ pc[c] = "transport"
    /\ kind[c] = "live"
    /\ o \in TransportOutcomes(c)
    /\ last' = Event("settle", c, <<>>, o)
    /\ pc' = [pc EXCEPT ![c] = "done"]
    /\ result' = [result EXCEPT ![c] = liveFn(o)]
    /\ UNCHANGED <<consecutiveFailures, lastFailureTime, briefingCache, slots, kind, retries,
                   wakeAt, attempts, only429, delays, failsSinceSuccess, prevRun, fetched>>
    /\ UNCHANGED nonGateVars

\* the request of a chatStream call settles
chatStreamSettle(c, o) ==
    /\ Quiescent
    /\ pc[c] = "transport"
    /\ kind[c] = "stream"
    /\ o \in TransportOutcomes(c)
    /\ last' = Event("settle", c, <<>>, o)
    /\ pc' = [pc EXCEPT ![c] = "done"]
    /\ result' = [result EXCEPT ![c] = streamFn(o)]
    /\ UNCHANGED <<consecutiveFailures, lastFailureTime, briefingCache, slots, kind, retries,
                   wakeAt, attempts, only429, delays, failsSinceSuccess, prevRun, fetched>>
    /\ UNCHANGED nonGateVars

\* the backoff timer of a call fires, once its delay has passed and not before
\* a timer that is due earlier: withRetry(fn, retries - 1)
backoffElapsed(c) ==
    /\ Quiescent
    /\ pc[c] = "backoff"
    /\ \A d \in Calls : pc[d] = "backoff" => wakeAt[c] <= wakeAt[d]
    /\ last' = Event("retry", c, <<>>, NoOutcome)
    /\ Elapse(wakeAt[c])
    /\ withRetryEnter(c, retries[c] - 1)
    /\ UNCHANGED <<slots, kind, only429, delays, failsSinceSuccess, prevRun, fetched>>
    /\ UNCHANGED nonGateVars

\* the caller's continuation consumes the settled promise
Settled(c) ==
    /\ pc[c] = "done"
    /\ pc' = [pc EXCEPT ![c] = "gone"]
    /\ kind' = [kind EXCEPT ![c] = "none"]
    /\ retries' = [retries EXCEPT ![c] = 0]
    /\ result' = [result EXCEPT ![c] = NoResult]
    /\ attempts' = [attempts EXCEPT ![c] = 0]
    /\ only429' = [only429 EXCEPT ![c] = TRUE]
    /\ delays' = [delays EXCEPT ![c] = <<>>]
    /\ last' = NoEvent
    /\ UNCHANGED <<consecutiveFailures, lastFailureTime, briefingCache, slots, wakeAt,
                   failsSinceSuccess, prevRun, fetched>>
    /\ UNCHANGED nonGateVars

Next ==
    \/ \E d \in Deltas : Advance(d)
    \/ \E c \in Calls, rs \in RoomLists : generateFacilityBriefing(c, rs)
    \/ \E c \in Calls : analyzePlantImage(c)
    \/ \E c \in Calls : chat(c)
    \/ \E c \in Calls : chatStream(c)
    \/ \E c \in Calls : analyzeLiveFrame(c)
    \/ \E c \in Calls : \E o \in TransportOutcomes(c) : withRetrySettle(c, o)
    \/ \E c \in Calls : \E o \in TransportOutcomes(c) : analyzeLiveFrameSettle(c, o)
    \/ \E c \in Calls : \E o \in TransportOutcomes(c) : chatStreamSettle(c, o)
    \/ \E c \in Calls : backoffElapsed(c)
    \/ \E c \in Calls : Settled(c)

Spec == Init /\ [][Next]_vars

\* The application has two calls in flight at a time (a briefing requested
\* while a chat is waiting, say); the calls made before them have succeeded
\* and been consumed.
InitOverlap ==
    /\ DriftUnused /\ SimInit /\ CtlInit /\ ChatInit
    /\ consecutiveFailures = 0
    /\ lastFailureTime = 0 - COOLDOWN_MS
    /\ briefingCache = NoCache
    /\ slots = 2
    /\ pc = [c \in Calls |-> IF c + 2 <= MaxCalls THEN "gone" ELSE "idle"]
    /\ kind = [c \in Calls |-> "none"]
    /\ retries = [c \in Calls |-> 0]
    /\ wakeAt = [c \in Calls |-> 0]
    /\ result = [c \in Calls |-> NoResult]
    /\ attempts = [c \in Calls |-> 0]
    /\ only429 = [c \in Calls |-> TRUE]
    /\ delays = [c \in Calls |-> <<>>]
    /\ failsSinceSuccess = 0
    /\ prevRun = FALSE
    /\ fetched = NoValue
    /\ last = NoEvent

SpecOverlap == InitOverlap /\ [][Next]_vars

\* Every request sent through the wrapper settles, every backoff timer fires
\* and every settled promise is consumed by its caller.
Fairness ==
    \A c \in Calls :
        /\ WF_vars(\E o \in TransportOutcomes(c) : withRetrySettle(c, o))
        /\ WF_vars(backoffElapsed(c))
        /\ WF_vars(Settled(c))

SpecLive == InitOverlap /\ [][Next]_vars /\ Fairness

\* ================================================================ claims
\* The predicates below are written from the statements they check, with the
\* statements' own numbers, and read the state right after the step they
\* are about.

JustCalled(c) == last.event = "call" /\ last.call = c

JustSettled(c) == last.event = "settle" /\ last.call = c

SinceLastFailure == now - lastFailureTime

CacheWithinTTL == briefingCache # NoCache /\ now - briefingCache.timestamp < 300000

CriticalRoom(rs) == \E i \in DOMAIN rs : rs[i] = "CRITICAL"

\* the briefing call c was answered from the cache
ServedFromCache(c) ==
    /\ kind[c] = "briefing"
    /\ pc[c] = "done"
    /\ attempts[c] = 0
    /\ result[c] = Return(briefingCache.data)

\* the briefing call c could be answered from the cache
CacheAnswers(c) ==
    /\ kind[c] = "briefing"
    /\ CacheWithinTTL
    /\ (~CriticalRoom(last.rooms) \/ briefingCache.data.status = "CRITICAL")

\* the call c failed with the cooldown error and sent no request
RejectedByBreaker(c) ==
    /\ pc[c] = "done"
    /\ result[c].type = "error"
    /\ result[c].error.message = <<"AI", "System", "Cooldown">>
    /\ attempts[c] = 0

\* C1: a call made through the retry wrapper (a briefing the cache does not
\* answer, an image analysis, a chat) while 5 or more consecutive failures
\* are recorded and less than 60000 ms have passed since the last failure
\* is rejected at once with the cooldown error, sends no request and
\* leaves the failure count as it was.
C1_BreakerOpens ==
    \A c \in Calls :
        (/\ JustCalled(c)
         /\ kind[c] \in {"briefing", "analyze", "chat"}
         /\ ~CacheAnswers(c)
         /\ last.cf >= 5
         /\ SinceLastFailure < 60000)
        => /\ RejectedByBreaker(c)
           /\ result[c].error.remaining * 1000 >= 60000 - SinceLastFailure
           /\ consecutiveFailures = last.cf

C1_Witness ==
    \E c \in Calls :
        /\ JustCalled(c)
        /\ kind[c] \in {"briefing", "analyze", "chat"}
        /\ last.cf = 5
        /\ SinceLastFailure < 60000
        /\ RejectedByBreaker(c)

\* C2: a call made through the retry wrapper while the circuit is open
\* (5 or more consecutive failures) and at least 60000 ms after the last
\* failure is not rejected: the failure count is reset to 0 and the
\* request is sent.
C2_BreakerCloses ==
    \A c \in Calls :
        (/\ JustCalled(c)
         /\ kind[c] \in {"briefing", "analyze", "chat"}
         /\ ~CacheAnswers(c)
         /\ last.cf >= 5
         /\ SinceLastFailure >= 60000)
        => /\ pc[c] = "transport"
           /\ attempts[c] = 1
           /\ result[c] = NoResult
           /\ consecutiveFailures = 0

C2_Witness ==
    \E c \in Calls :
        /\ JustCalled(c)
        /\ last.cf >= 5
        /\ SinceLastFailure >= 60000
        /\ pc[c] = "transport"
        /\ consecutiveFailures = 0

\* C3: every successful attempt through the wrapper sets the failure count
\* to 0; so as long as fewer than 5 attempts have failed since the last
\* success the count equals the number of those failures (4 failures, a
\* success, 4 failures leave it at 4) and no call is rejected with the
\* cooldown error.
C3_SuccessResets ==
    /\ \A c \in Calls :
           (JustSettled(c) /\ kind[c] \in Wrapped /\ result[c].type = "ok")
           => consecutiveFailures = 0
    /\ failsSinceSuccess < 5
       => /\ consecutiveFailures = failsSinceSuccess
          /\ \A c \in Calls : result[c].error.message # <<"AI", "System", "Cooldown">>

C3_Witness ==
    /\ prevRun
    /\ failsSinceSuccess = 4
    /\ consecutiveFailures = 4
    /\ \E c \in Calls : JustSettled(c) /\ kind[c] \in Wrapped

Signals(msg, code) == \E i \in DOMAIN msg : msg[i] = code

\* C4: the delay scheduled before the Nth retry of a call is N * 1000 ms and
\* the retry is not made before that delay has passed; a call whose fourth
\* attempt succeeds (its first three having failed with a retryable error)
\* returns the payload of that attempt, having waited 1000, 2000 and
\* 3000 ms.
C4_RetryBackoff ==
    \A c \in Calls :
        /\ \A i \in DOMAIN delays[c] : delays[c][i] = i * 1000
        /\ (JustSettled(c) /\ pc[c] = "backoff")
           => /\ Len(delays[c]) = attempts[c]
              /\ wakeAt[c] - now = attempts[c] * 1000
        /\ (last.event = "retry" /\ last.call = c /\ slots = 1)
           => SinceLastFailure >= Len(delays[c]) * 1000
        /\ (/\ JustSettled(c)
            /\ kind[c] \in Wrapped
            /\ attempts[c] = 4
            /\ ~last.outcome.rejects
            /\ ~last.outcome.text.empty)
           => /\ pc[c] = "done"
              /\ result[c] = Return(last.outcome.text.json)
              /\ delays[c] = <<1000, 2000, 3000>>

C4_Witness ==
    \E c \in Calls :
        /\ JustSettled(c)
        /\ attempts[c] = 4
        /\ only429[c]
        /\ result[c].type = "ok"
        /\ result[c].value = last.outcome.text.json
        /\ delays[c] = <<1000, 2000, 3000>>

\* C5: when an attempt is rejected by the transport with an error whose
\* message signals neither 429 nor 503, the call fails with that very
\* error at once: no backoff delay is scheduled and no further request is
\* sent (a first attempt is then the only one).
C5_NonRetryable ==
    \A c \in Calls :
        (/\ JustSettled(c)
         /\ last.outcome.rejects
         /\ ~Signals(last.outcome.error.message, "429")
         /\ ~Signals(last.outcome.error.message, "503"))
        => /\ pc[c] = "done"
           /\ result[c] = Throw(last.outcome.error)
           /\ Len(delays[c]) = attempts[c] - 1

C5_Witness ==
    \E c \in Calls :
        /\ JustSettled(c)
        /\ kind[c] \in Wrapped
        /\ last.outcome.rejects
        /\ last.outcome.error.message = <<"400", "bad", "request">>
        /\ attempts[c] = 1
        /\ delays[c] = <<>>
        /\ result[c] = Throw(last.outcome.error)

\* C6: once a briefing is cached, a briefing call made less than 300000 ms
\* after the cached timestamp with no CRITICAL room in its input returns
\* the cached briefing object itself and sends no request.
C6_CacheHit ==
    \A c \in Calls :
        (/\ JustCalled(c)
         /\ kind[c] = "briefing"
         /\ CacheWithinTTL
         /\ ~CriticalRoom(last.rooms))
        => /\ ServedFromCache(c)
           /\ consecutiveFailures = last.cf

C6_Witness ==
    \E c \in Calls :
        /\ JustCalled(c)
        /\ kind[c] = "briefing"
        /\ CacheWithinTTL
        /\ now - briefingCache.timestamp >= 60000
        /\ ~CriticalRoom(last.rooms)
        /\ ServedFromCache(c)

\* C7 as stated: a briefing call with a CRITICAL room in its input and a
\* cached briefing within TTL whose status is not CRITICAL is not answered
\* from the cache and sends a request; a cached CRITICAL briefing within
\* TTL is served whatever the rooms are.
C7_AsStated ==
    \A c \in Calls :
        (JustCalled(c) /\ kind[c] = "briefing" /\ CacheWithinTTL)
        => /\ (CriticalRoom(last.rooms) /\ briefingCache.data.status # "CRITICAL")
              => (~ServedFromCache(c) /\ pc[c] = "transport" /\ attempts[c] = 1)
           /\ briefingCache.data.status = "CRITICAL" => ServedFromCache(c)

\* C7: a briefing call with a CRITICAL room in its input and a cached
\* briefing within TTL whose status is not CRITICAL is not answered from
\* the cache: it goes through the retry wrapper, which sends a request
\* unless the circuit is open, in which case the call is rejected with the
\* cooldown error.  A cached CRITICAL briefing within TTL is served
\* whatever the rooms are.  So a briefing answered from the cache while a
\* CRITICAL room is in the input is itself CRITICAL.
C7_SafetyOverride ==
    \A c \in Calls :
        (JustCalled(c) /\ kind[c] = "briefing" /\ CacheWithinTTL)
        => /\ (CriticalRoom(last.rooms) /\ briefingCache.data.status # "CRITICAL")
              => /\ ~ServedFromCache(c)
                 /\ IF last.cf >= 5 /\ SinceLastFailure < 60000
                    THEN RejectedByBreaker(c)
                    ELSE pc[c] = "transport" /\ attempts[c] = 1
           /\ briefingCache.data.status = "CRITICAL" => ServedFromCache(c)
           /\ (ServedFromCache(c) /\ CriticalRoom(last.rooms))
              => result[c].value.status = "CRITICAL"

C7_Witness ==
    \E c \in Calls :
        /\ JustCalled(c)
        /\ kind[c] = "briefing"
        /\ CacheWithinTTL
        /\ CriticalRoom(last.rooms)
        /\ briefingCache.data.status = "OPTIMAL"
        /\ pc[c] = "transport"
        /\ attempts[c] = 1

\* C8 as stated: whatever the single request of a live-frame call settles
\* with, the call resolves to an overlay; when the request is rejected or
\* the response is empty it resolves to the default overlay.
C8_LiveNeverThrows ==
    \A c \in Calls :
        (JustSettled(c) /\ kind[c] = "live")
        => /\ result[c].type = "ok"
           /\ (last.outcome.rejects \/ last.outcome.text.empty)
              => result[c].value.status = "SCANNING"

\* C9 as stated: image analysis, chat and live-frame analysis go through
\* the retry wrapper: a rejected request of any of them increments the
\* failure count and sets the last-failure time, and a call of any of them
\* made while the circuit is open is rejected with the cooldown error
\* without sending a request.
C9_AllThroughWrapper ==
    \A c \in Calls :
        kind[c] \in {"analyze", "chat", "live"}
        => /\ (JustSettled(c) /\ last.outcome.rejects)
              => (consecutiveFailures = last.cf + 1 /\ lastFailureTime = now)
           /\ (JustCalled(c) /\ last.cf >= 5 /\ SinceLastFailure < 60000)
              => RejectedByBreaker(c)

\* C10 as stated: a briefing, image-analysis or chat call that ends either
\* returns the payload the remote model produced or fails with an error;
\* a rejected request or an empty response never becomes a return value.
C10_NoSilentRecovery ==
    \A c \in Calls :
        (JustSettled(c) /\ kind[c] \in {"briefing", "analyze", "chat"} /\ pc[c] = "done")
        => IF ~last.outcome.rejects /\ ~last.outcome.text.empty
           THEN result[c] = Return(last.outcome.text.json)
           ELSE result[c].type = "error"

\* C11: once the unsubscribe function returned by onReading(cb) has been
\* called, no later tick invokes cb, whatever registerRoom, startSimulation,
\* stopSimulation, onReading and tick events follow, for as long as cb is
\* not passed to onReading again.
C11_Unsubscribe ==
    \A i \in DOMAIN invoked : invoked[i].cb \notin simLast.unsubscribed

C11_Witness ==
    /\ simLast.op = "tick"
    /\ simLast.unsubscribed # {}
    /\ invoked # <<>>
    /\ \A i \in DOMAIN invoked : invoked[i].cb \notin simLast.unsubscribed

\* C12: startSimulation while a timer is running changes nothing, and
\* stopSimulation while none is running changes nothing; at most one
\* interval timer is ever active, and one is active exactly when the last
\* start/stop call that changed anything was a start.
C12_IdempotentStartStop ==
    /\ Cardinality(timers) <= 1
    /\ timers # {} <=> lastChange = "start"
    /\ timers # {} <=> intervalId # 0
    /\ (simLast.op = "startSimulation" /\ simLast.timers # {})
       => (timers = simLast.timers /\ intervalId = simLast.intervalId)
    /\ (simLast.op = "stopSimulation" /\ simLast.timers = {})
       => (timers = {} /\ intervalId = simLast.intervalId)

C12_Witness ==
    /\ simLast.op = "startSimulation"
    /\ simLast.timers # {}
    /\ timers = simLast.timers
    /\ ticks > 0

\* C13: the status of every room the controller holds is the threshold rule
\* applied to the room's current reading (CRITICAL when the temperature is
\* above 30 or below 15; else WARNING when the VPD is below 0.4 or above 1.6;
\* else NOMINAL), the rooms loaded from the seeded defaults included.
C13_StatusFollowsReading ==
    \A id \in RoomIds :
        rooms[id].present =>
            rooms[id].status =
                (IF rooms[id].currentReading.temp > 300 \/ rooms[id].currentReading.temp < 150
                 THEN "CRITICAL"
                 ELSE IF rooms[id].currentReading.vpd < 40 \/ rooms[id].currentReading.vpd > 160
                      THEN "WARNING"
                      ELSE "NOMINAL")

Abs(x) == IF x < 0 THEN -x ELSE x

\* C14 as stated: one application of simulateDrift moves the temperature by
\* at most 0.25 and the humidity by at most 0.75, after rounding, for every
\* previous reading and every random draw.
C14_AsStated ==
    emitted.present =>
        /\ 10 * Abs(emitted.temp - current.temp) <= 25
        /\ 10 * Abs(emitted.humidity - current.humidity) <= 75

\* C14: one application of simulateDrift to a reading held with one decimal
\* moves the temperature by at most 0.3 and the humidity by at most 0.8: the
\* raw steps stay within 0.25 and 0.75, and rounding the sum to one decimal
\* can add up to 0.05.
C14_DriftBounds ==
    emitted.present =>
        /\ Abs(emitted.temp - current.temp) <= 3
        /\ Abs(emitted.humidity - current.humidity) <= 8

C14_Witness ==
    /\ emitted.present
    /\ Abs(emitted.temp - current.temp) = 3
    /\ Abs(emitted.humidity - current.humidity) = 8

\* C15: every reading simulateDrift emits has a VPD of at least 0, also when
\* the humidity has walked above 100 and the formula gives a negative value.
C15_VpdNeverNegative ==
    emitted.present => emitted.vpd >= 0

C15_Witness ==
    /\ emitted.present
    /\ emitted.humidity > 1000
    /\ vpdOf(emitted.temp, emitted.humidity) < 0
    /\ emitted.vpd = 0

\* C16: when handleSend runs with a message that is not blank and no request
\* in progress, geminiService.chat is invoked with a history that has a
\* 'user' entry carrying exactly the text of the input box and that has no
\* entry in the thinking state.
C16_PayloadHasUserMessage ==
    (chatLast.op = "handleSend" /\ trim(chatLast.input) # <<>> /\ ~chatLast.isLoading)
        => /\ Len(chatArgs) = 1
           /\ \E i \in DOMAIN chatArgs[1] :
                  chatArgs[1][i].role = "user" /\ chatArgs[1][i].text = chatLast.input
           /\ \A i \in DOMAIN chatArgs[1] : ~chatArgs[1][i].isThinking

\* the second message, sent with blanks around it after the first request
\* failed and left its placeholder in the list
C16_Witness ==
    /\ chatLast.op = "handleSend" /\ ~chatLast.isLoading
    /\ chatLast.input # trim(chatLast.input) /\ trim(chatLast.input) # <<>>
    /\ Len(chatArgs) = 1
    /\ \E i \in DOMAIN messages : messages[i].isThinking /\ messages[i].id # pendingId

\* C17 as stated: the circuit breaker is looked at once per call, before the
\* first request: once that request has been sent, a retry of the same call
\* sends its request and is never rejected with the cooldown error, even
\* when consecutiveFailures has reached 5 during the call.
C17_BreakerOncePerCall ==
    \A c \in Calls :
        (last.event = "retry" /\ last.call = c)
        => /\ pc[c] = "transport"
           /\ ~(result[c].type = "error"
                  /\ result[c].error.message = <<"AI", "System", "Cooldown">>)

\* C18: every failed attempt of a call made through the retry wrapper,
\* whether it is retried afterwards or not, adds exactly 1 to
\* consecutiveFailures and sets lastFailureTime to the time of the failure.
C18_FailureCounted ==
    \A c \in Calls :
        (JustSettled(c) /\ kind[c] \in Wrapped /\ fnOf(kind[c], last.outcome).type = "error")
        => /\ consecutiveFailures = last.cf + 1
           /\ lastFailureTime = now

\* a failed attempt that is retried and one that is not, the first of them
\* bringing the count to 5
C18_Witness ==
    \E c \in Calls :
        /\ JustSettled(c) /\ kind[c] \in Wrapped
        /\ fnOf(kind[c], last.outcome).type = "error"
        /\ pc[c] = "backoff"
        /\ last.cf = 4 /\ consecutiveFailures = 5
        /\ \E d \in Calls : d < c /\ pc[d] = "gone"

\* C19: a briefing call made while the cached briefing is 300000 ms old or
\* older is never answered from the cache, whatever the room statuses and
\* the cached status are: it enters the retry wrapper, which sends a
\* request, or rejects the call when the circuit is open.
C19_CacheExpires ==
    \A c \in Calls :
        (JustCalled(c) /\ kind[c] = "briefing"
            /\ briefingCache # NoCache /\ now - briefingCache.timestamp >= 300000)
        => /\ ~ServedFromCache(c)
           /\ IF last.cf >= 5 /\ SinceLastFailure < 60000
              THEN RejectedByBreaker(c)
              ELSE pc[c] = "transport" /\ attempts[c] = 1

\* a CRITICAL briefing exactly 300000 ms old, asked for with no CRITICAL room
C19_Witness ==
    \E c \in Calls :
        /\ JustCalled(c) /\ kind[c] = "briefing"
        /\ briefingCache # NoCache /\ now - briefingCache.timestamp = 300000
        /\ briefingCache.data.status = "CRITICAL"
        /\ ~CriticalRoom(last.rooms)
        /\ pc[c] = "transport" /\ attempts[c] = 1

\* C20: when the fetch of a briefing call completes successfully, the cache
\* slot is overwritten with the fresh result and the current time; a failed
\* fetch and the other operations leave it alone, so the slot is empty until
\* the first successful fetch and from then on holds the result of the
\* successful fetch that completed last.
C20_CacheOverwritten ==
    /\ (briefingCache = NoCache) <=> (fetched = NoValue)
    /\ briefingCache # NoCache => briefingCache.data = fetched
    /\ \A c \in Calls :
          (JustSettled(c) /\ kind[c] = "briefing" /\ result[c].type = "ok")
          => briefingCache = [data |-> result[c].value, timestamp |-> now]

\* the third call is a briefing fetched after a retry, while earlier calls
\* have completed
C20_Witness ==
    \E c \in Calls :
        /\ c > 2
        /\ JustSettled(c) /\ kind[c] = "briefing" /\ result[c].type = "ok"
        /\ attempts[c] > 1
        /\ briefingCache = [data |-> result[c].value, timestamp |-> now]

\* C21: when the request of a briefing or an image analysis comes back with
\* no text, the attempt fails: the call rejects with an error, 1 is added to
\* consecutiveFailures, no retry is scheduled and no further request is
\* sent, and the briefing cache is left as it was.
C21_EmptyResponseFails ==
    \A c \in Calls :
        (JustSettled(c) /\ kind[c] \in {"briefing", "analyze"}
            /\ ~last.outcome.rejects /\ last.outcome.text.empty)
        => /\ pc[c] = "done"
           /\ result[c].type = "error"
           /\ result[c].error \in {EmptyResponseError, NoAnalysisError}
           /\ consecutiveFailures = last.cf + 1
           /\ Len(delays[c]) = attempts[c] - 1
           /\ briefingCache = last.cache

\* the only request of a briefing call comes back empty while a briefing is
\* cached
C21_Witness ==
    \E c \in Calls :
        /\ JustSettled(c) /\ kind[c] = "briefing"
        /\ ~last.outcome.rejects /\ last.outcome.text.empty
        /\ attempts[c] = 1
        /\ result[c] = Throw(EmptyResponseError)
        /\ last.cache # NoCache

\* C22: when a listener calls its own unsubscribe function from inside its
\* callback, the dispatch goes on: the callbacks one notifyListeners call
\* runs are the listeners subscribed when it began, each once and in order,
\* and the listener that left is not in the list afterwards.
C22_RemovalDuringDispatch ==
    /\ \A k \in DOMAIN dispatches : dispatches[k].ran = dispatches[k].began
    /\ simLast.op = "tick"
       => \A cb \in unsubscribed \ simLast.unsubscribed :
              \A i \in DOMAIN listeners : listeners[i] # cb

\* the first of two listeners unsubscribes itself while it is notified, and
\* the second is notified all the same
C22_Witness ==
    /\ simLast.op = "tick"
    /\ \E k \in DOMAIN dispatches :
          /\ Len(dispatches[k].began) = 2
          /\ dispatches[k].began[1] # dispatches[k].began[2]
          /\ dispatches[k].began[1] \in unsubscribed \ simLast.unsubscribed
          /\ dispatches[k].ran = dispatches[k].began
    /\ Len(listeners) = 1

\* C23: a room has a per-room entry, and is published on a tick, only once
\* it has been registered with a reading: a room registered without one
\* has no entry and no listener is notified for its id, until it is
\* registered again with a reading.
C23_RegistrationNeedsReading ==
    LET seeded == {r.id : r \in {x \in registrations : x.withReading}} IN
    /\ \A id \in RoomIds : activeRooms[id].present <=> id \in seeded
    /\ \A k \in DOMAIN dispatches : dispatches[k].room \in seeded
    /\ \A i \in DOMAIN invoked : invoked[i].room \in seeded

\* a tick notifies a listener for another room while the third room has
\* only been registered without a reading
C23_Witness ==
    /\ simLast.op = "tick"
    /\ invoked # <<>>
    /\ [id |-> "r3", withReading |-> FALSE] \in registrations
    /\ [id |-> "r3", withReading |-> TRUE] \notin registrations
    /\ ~activeRooms["r3"].present
    /\ \A i \in DOMAIN invoked : invoked[i].room # "r3"

\* C24 as stated: one application of simulateDrift changes the CO2 value by
\* an integer from -5 to +5 with no floor or ceiling, and every integer from
\* -5 to +5, +5 included, is the change for some value of the random source.
C24_Co2Drift ==
    /\ emitted.present => (emitted.co2 - current.co2) \in -5..5
    /\ \A d \in -5..5 : \E r \in Co2Rands : co2Change(r) = d

\* C25: a call the circuit breaker rejects leaves consecutiveFailures and
\* lastFailureTime as they were, so calls made during the cooldown do not
\* prolong it: a call that enters the wrapper 60000 ms or more after the
\* last failed attempt is not rejected.
C25_RejectionKeepsBreaker ==
    \A c \in Calls :
        /\ (JustCalled(c) /\ RejectedByBreaker(c))
           => /\ consecutiveFailures = last.cf
              /\ lastFailureTime = last.lft
              /\ last.cf >= 5 /\ now - last.lft < 60000
        /\ (JustCalled(c) /\ now - last.lft >= 60000) => ~RejectedByBreaker(c)

\* the second of two calls is rejected like the first, which was made after
\* five failures
C25_Witness ==
    \E c \in Calls :
        /\ JustCalled(c) /\ RejectedByBreaker(c)
        /\ consecutiveFailures = 5 /\ last.cf = 5
        /\ lastFailureTime = last.lft
        /\ c > 1 /\ kind[c] = "chat"

\* C26: with calls overlapping (one suspended in its request or in its
\* backoff while another runs), no request of a wrapped call is started at
\* a moment when consecutiveFailures is 5 or more and less than 60000 ms
\* have passed since lastFailureTime: the breaker check and the start of
\* the request happen in one step.
C26_NoAttemptWhileOpen ==
    \A c \in Calls :
        (last.event \in {"call", "retry"} /\ last.call = c
            /\ kind[c] \in Wrapped /\ pc[c] = "transport")
        => ~(consecutiveFailures >= 5 /\ SinceLastFailure < 60000)

\* a retry sends its request with four failures recorded while the other
\* call is waiting for its own request
C26_Witness ==
    \E c, d \in Calls :
        /\ c # d
        /\ last.event = "retry" /\ last.call = c
        /\ kind[c] \in Wrapped /\ pc[c] = "transport"
        /\ pc[d] = "transport" /\ kind[d] \in Wrapped
        /\ consecutiveFailures = 4

\* C27: a briefing call that the cache can answer (within TTL and passing
\* the safety check) is answered from the cache whatever the state of the
\* circuit breaker is, also while the circuit is open, and leaves
\* consecutiveFailures and lastFailureTime as they were.
C27_CacheHitIgnoresBreaker ==
    \A c \in Calls :
        (JustCalled(c) /\ kind[c] = "briefing" /\ last.cache # NoCache
            /\ now - last.cache.timestamp < 300000
            /\ (~CriticalRoom(last.rooms) \/ last.cache.data.status = "CRITICAL"))
        => /\ ServedFromCache(c)
           /\ result[c].type = "ok"
           /\ consecutiveFailures = last.cf
           /\ lastFailureTime = last.lft

\* the briefing is served from the cache while five failures are recorded
\* and the cooldown has not passed
C27_Witness ==
    \E c \in Calls :
        /\ JustCalled(c) /\ kind[c] = "briefing"
        /\ ServedFromCache(c)
        /\ last.cf >= 5 /\ now - last.lft < 60000
        /\ consecutiveFailures = last.cf /\ lastFailureTime = last.lft

\* C28: a step of a briefing call that fails (the call is rejected by the
\* circuit breaker, an attempt fails and is retried or is final, the
\* response is empty, a retry is rejected) leaves the cache slot as it was:
\* the same data with the same timestamp, or empty.  A retry starts after
\* its backoff delay, so the unchanged timestamp lies that much further in
\* the past.
C28_FailedFetchKeepsCache ==
    \A c \in Calls :
        (last.call = c /\ kind[c] = "briefing"
            /\ (result[c].type = "error" \/ pc[c] = "backoff"))
        => IF last.event = "retry"
           THEN briefingCache =
                    IF last.cache = NoCache THEN NoCache
                    ELSE [last.cache EXCEPT
                             !.timestamp = Later(@, delays[c][Len(delays[c])], CACHE_TTL)]
           ELSE briefingCache = last.cache

\* the last of four attempts of a briefing fetch fails while a briefing is
\* cached
C28_Witness ==
    \E c \in Calls :
        /\ JustSettled(c) /\ kind[c] = "briefing"
        /\ result[c].type = "error" /\ attempts[c] = 4
        /\ last.cache # NoCache
        /\ briefingCache = last.cache

\* C29: a call made through the retry wrapper sends at most 4 requests, the
\* first and at most 3 retries, counted for that call alone whatever other
\* calls are doing; and, every request settling in the end, a call that is
\* waiting for its request or for its backoff timer resolves or rejects.
C29_BoundedRetry ==
    /\ [](\A c \in Calls :
            /\ attempts[c] <= 4
            /\ (kind[c] \in Wrapped /\ pc[c] \in {"transport", "backoff"})
               => attempts[c] + retries[c] = 4)
    /\ \A c \in Calls :
          (kind[c] \in Wrapped /\ pc[c] \in {"transport", "backoff"}) ~> (pc[c] = "done")

\* one call has used its four attempts while the other, still waiting, is
\* at its second
C29_Witness ==
    \E c, d \in Calls :
        /\ c # d
        /\ kind[c] \in Wrapped /\ pc[c] = "done" /\ attempts[c] = 4
        /\ kind[d] \in Wrapped /\ pc[d] = "transport" /\ attempts[d] = 2 /\ retries[d] = 2

\* C30 as stated: once the controller has unmounted and no init() of it is
\* still waiting for the store, no simulation timer is running.
C30_NoTimerAfterUnmount ==
    (ctl = "unmounted" /\ initPending = 0) => (timers = {} /\ intervalId = 0)

====
